---- MODULE Spec2Model ----
\* Model of plugins/modules/cassandra_keyspace.py: the keyspace reconciler
\* (existence check, live configuration fetch, diff, statement builder, drop
\* and the top-level branch on existence x state x check mode).
EXTENDS Integers, Sequences, FiniteSets, TLC

\* ---------------------------------------------------------------- bounds
MaxRF == 2
NumDCs == 2
MaxRuns == 2

\* ------------------------------------------------------------ vocabulary
\* Data centre names of the EXAMPLES section.
DCNames == <<"london", "paris", "tokyo", "new_york">>

DataCentreNames == {DCNames[i] : i \in 1..NumDCs}

\* The keyspace name of the EXAMPLES section.
KeyspaceName == "mykeyspace"

\* Choices of the state argument.
States == {"present", "absent"}

\* Rendering of replication values and factors as decimal text.
DecimalStr == <<"1", "2", "3", "4", "5", "6", "7", "8", "9">>

\* '{0}'.format(n) for a small positive integer.
PyFormatInt(n) == DecimalStr[n]

\* int(s) for a decimal string.
PyInt(s) == CHOOSE n \in 1..Len(DecimalStr) : DecimalStr[n] = s

\* '{0}'.format(b) for a boolean.
PyFormatBool(b) == IF b THEN "True" ELSE "False"

\* str.lower() on the texts get_keyspace_config applies it to.
PyLower(s) ==
  CASE s = "DURABLE_WRITES = True;" -> "durable_writes = true;"
    [] s = "DURABLE_WRITES = False;" -> "durable_writes = false;"
    [] OTHER -> s

\* bool(s) for a string: true exactly when the string is not empty.
PyBool(s) == s # ""

\* A mapping with no key.
EmptyMap == [k \in {} |-> 0]

\* ------------------------------------------------- the cluster's keyspace
\* The cluster side of the one keyspace the module manages.
NoKeyspace ==
  [exists |-> FALSE, class |-> "", options |-> EmptyMap, durable_writes |-> TRUE]

SimpleKeyspace(rf, dw) ==
  [exists |-> TRUE, class |-> "SimpleStrategy",
   options |-> [k \in {"replication_factor"} |-> rf], durable_writes |-> dw]

NetworkKeyspace(dcs, dw) ==
  [exists |-> TRUE, class |-> "NetworkTopologyStrategy",
   options |-> dcs, durable_writes |-> dw]

\* A keyspace of a class the diff does not know (for instance a system one).
LocalKeyspace(dw) ==
  [exists |-> TRUE, class |-> "LocalStrategy", options |-> EmptyMap,
   durable_writes |-> dw]

\* data centre -> factor mappings over the bounded names, the empty one included.
DCMaps == UNION {[S -> 1..MaxRF] : S \in SUBSET DataCentreNames}

ClusterStates ==
  {NoKeyspace}
    \cup {SimpleKeyspace(rf, dw) : rf \in 1..MaxRF, dw \in BOOLEAN}
    \cup {NetworkKeyspace(m, dw) : m \in DCMaps \ {EmptyMap}, dw \in BOOLEAN}
    \cup {LocalKeyspace(dw) : dw \in BOOLEAN}

\* How the driver writes the durable-writes clause of an exported definition:
\* in the form the module's pattern expects, in lower case, or omitting the
\* clause when the flag has its default value.
ExportStyles == {"upper", "lower", "omit_default"}

\* ------------------------------------------------------------- parameters
\* data_centres is None or a dict.
DataCentresValues ==
  {[is_none |-> TRUE, map |-> EmptyMap]}
    \cup {[is_none |-> FALSE, map |-> m] : m \in DCMaps}

ModuleParams ==
  [name : {KeyspaceName}, state : States, replication_factor : 1..MaxRF,
   durable_writes : BOOLEAN, data_centres : DataCentresValues]

\* ------------------------------------------------------- keyspace_exists
\* Names listed by the catalog query.
CatalogNames(cl) == {"system"} \cup (IF cl.exists THEN {KeyspaceName} ELSE {})

keyspace_exists(cl, keyspace) == \E ks \in CatalogNames(cl) : ks = keyspace

\* ---------------------------------------------------------- get_keyspace
\* The replication map literal of the exported definition, values as text.
ReplicationLiteral(cl) ==
  [k \in {"class"} \cup DOMAIN cl.options |->
     IF k = "class" THEN cl.class ELSE PyFormatInt(cl.options[k])]

\* The durable-writes clause of the exported definition ("" when omitted).
DurableWritesClause(cl, style) ==
  CASE style = "upper" ->
         IF cl.durable_writes THEN "DURABLE_WRITES = True;"
                              ELSE "DURABLE_WRITES = False;"
    [] style = "lower" ->
         IF cl.durable_writes THEN "durable_writes = true;"
                              ELSE "durable_writes = false;"
    [] OTHER ->
         IF cl.durable_writes THEN "" ELSE "durable_writes = false;"

\* export_as_string(): the two fragments get_keyspace_config reads.
get_keyspace(cl, style) ==
  [replication |-> ReplicationLiteral(cl),
   durable_writes_clause |-> DurableWritesClause(cl, style)]

\* --------------------------------------------------- get_keyspace_config
\* re.search('DURABLE_WRITES = (True|False);', cql): case-sensitive.
durable_writes_regexp_search(text) ==
  IF text \in {"DURABLE_WRITES = True;", "DURABLE_WRITES = False;"}
    THEN [matched |-> TRUE, group0 |-> text]
    ELSE [matched |-> FALSE, group0 |-> ""]

get_keyspace_config(cql) ==
  LET m == durable_writes_regexp_search(cql.durable_writes_clause)
      dw == IF m.matched THEN m.group0 ELSE "true"
      keyspace_config == cql.replication
  IN [k \in DOMAIN keyspace_config \cup {"durable_writes"} |->
        IF k = "durable_writes" THEN PyBool(PyLower(dw))
                                ELSE keyspace_config[k]]

\* --------------------------------------------------- keyspace_is_changed
\* Result of a call: the value returned, or the way the call ended instead
\* (exc is "" on a return, "KeyError" when the metadata holds no such
\* keyspace, "TypeError" when iterating None, "fail_json" when the module
\* exits on an unknown class).
Returned(v) == [exc |-> "", value |-> v]

Raised(e) == [exc |-> e, value |-> FALSE]

\* The loop over data_centres (lines 262-267).
DataCentreDiffers(cfg, data_centres) ==
  \E dc \in DOMAIN data_centres :
     IF dc \in DOMAIN cfg
       THEN data_centres[dc] # PyInt(cfg[dc])
       ELSE TRUE

\* The loop over cfg.keys() for removed data centres (lines 269-272).
DataCentreRemoved(cfg, data_centres) ==
  \E dc \in DOMAIN cfg :
     dc \notin DOMAIN data_centres /\ dc \notin {"class", "durable_writes"}

\* The diff without its final else: an unknown class counts as unchanged.
keyspace_is_changed_no_else(cl, style, replication_factor, durable_writes, data_centres) ==
  LET cfg == get_keyspace_config(get_keyspace(cl, style))
  IN IF ~cl.exists
       THEN Raised("KeyError")
     ELSE IF cfg["class"] = "SimpleStrategy"
       THEN Returned(PyInt(cfg["replication_factor"]) # replication_factor
                       \/ cfg["durable_writes"] # durable_writes)
     ELSE IF cfg["class"] = "NetworkTopologyStrategy"
       THEN IF cfg["durable_writes"] # durable_writes
              THEN Returned(TRUE)
            ELSE IF data_centres.is_none
              THEN Raised("TypeError")
            ELSE IF DataCentreDiffers(cfg, data_centres.map)
              THEN Returned(TRUE)
            ELSE Returned(DataCentreRemoved(cfg, data_centres.map))
     ELSE Returned(FALSE)

keyspace_is_changed(cl, style, replication_factor, durable_writes, data_centres) ==
  LET cfg == get_keyspace_config(get_keyspace(cl, style))
  IN IF ~cl.exists
       THEN Raised("KeyError")
     ELSE IF cfg["class"] = "SimpleStrategy"
       THEN Returned(PyInt(cfg["replication_factor"]) # replication_factor
                       \/ cfg["durable_writes"] # durable_writes)
     ELSE IF cfg["class"] = "NetworkTopologyStrategy"
       THEN IF cfg["durable_writes"] # durable_writes
              THEN Returned(TRUE)
            ELSE IF data_centres.is_none
              THEN Raised("TypeError")
            ELSE IF DataCentreDiffers(cfg, data_centres.map)
              THEN Returned(TRUE)
            ELSE Returned(DataCentreRemoved(cfg, data_centres.map))
     ELSE Raised("fail_json")

\* ------------------------------------------------- create_alter_keyspace
\* A statement is the sequence of the text pieces the code concatenates; the
\* last character of the text before cql[:-1] is a piece of its own.
SimpleHead ==
  "WITH REPLICATION = { 'class' : 'SimpleStrategy', 'replication_factor': "

NetworkHead == "WITH REPLICATION = { 'class' : 'NetworkTopologyStrategy',"

\* The keys of a dict in iteration order (the order of DCNames).
DictKeys(d) == SelectSeq(DCNames, LAMBDA dc : dc \in DOMAIN d)

\* The loop of lines 218-219 over the keys still to visit.
RECURSIVE DataCentrePieces(_, _)
DataCentrePieces(keys, data_centres) ==
  IF keys = << >>
    THEN << >>
    ELSE <<" '", Head(keys), "' : ", PyFormatInt(data_centres[Head(keys)]), ",">>
           \o DataCentrePieces(Tail(keys), data_centres)

\* The statement with its trailing comma left in.
DropLastChar_kept(cql) == cql

\* cql[:-1]
DropLastChar(cql) == SubSeq(cql, 1, Len(cql) - 1)

CreateAlterText(keyspace, replication_factor, durable_writes, data_centres, is_alter) ==
  LET verb == IF is_alter = FALSE THEN <<"CREATE KEYSPACE ", keyspace, " ">>
                                  ELSE <<"ALTER KEYSPACE ", keyspace, " ">>
      repl == IF ~data_centres.is_none
                THEN DropLastChar(
                       verb \o <<NetworkHead, " ">>
                            \o DataCentrePieces(DictKeys(data_centres.map),
                                                data_centres.map))
                       \o <<" }">>
                ELSE verb \o <<SimpleHead, PyFormatInt(replication_factor), " }">>
  IN repl \o <<" AND DURABLE_WRITES = ", PyFormatBool(durable_writes)>>

\* ------------------------------------------------------- session.execute
\* What the server reads in a statement; ok is FALSE on a syntax error.
SyntaxError ==
  [ok |-> FALSE, verb |-> "", keyspace |-> "", class |-> "",
   options |-> EmptyMap, durable_writes |-> TRUE]

ParseBool(s) == s = "True"

\* The k data centre entries of a NetworkTopologyStrategy map, entry i at
\* pieces 6+5(i-1) .. 9+5(i-1), entries separated by ",".
NetworkEntriesOk(cql, k) ==
  /\ \A i \in 1..k :
       /\ cql[6 + 5 * (i - 1)] = " '"
       /\ cql[8 + 5 * (i - 1)] = "' : "
       /\ \E n \in 1..Len(DecimalStr) : DecimalStr[n] = cql[9 + 5 * (i - 1)]
  /\ \A i \in 1..(k - 1) : cql[10 + 5 * (i - 1)] = ","
  /\ \A i, j \in 1..k : i # j => cql[7 + 5 * (i - 1)] # cql[7 + 5 * (j - 1)]

NetworkOptions(cql, k) ==
  [dc \in {cql[7 + 5 * (i - 1)] : i \in 1..k} |->
     PyInt(cql[9 + 5 * ((CHOOSE i \in 1..k : cql[7 + 5 * (i - 1)] = dc) - 1)])]

ParseStatement(cql) ==
  LET n == Len(cql) IN
  IF n = 2 /\ cql[1] = "DROP KEYSPACE "
    THEN [ok |-> TRUE, verb |-> "DROP", keyspace |-> cql[2], class |-> "",
          options |-> EmptyMap, durable_writes |-> TRUE]
  ELSE IF n < 8 \/ cql[1] \notin {"CREATE KEYSPACE ", "ALTER KEYSPACE "}
          \/ cql[3] # " " \/ cql[n - 2] # " }"
          \/ cql[n - 1] # " AND DURABLE_WRITES = "
          \/ cql[n] \notin {"True", "False"}
    THEN SyntaxError
  ELSE LET verb == IF cql[1] = "CREATE KEYSPACE " THEN "CREATE" ELSE "ALTER" IN
    IF cql[4] = SimpleHead
      THEN IF n = 8 /\ \E r \in 1..Len(DecimalStr) : DecimalStr[r] = cql[5]
             THEN [ok |-> TRUE, verb |-> verb, keyspace |-> cql[2],
                   class |-> "SimpleStrategy",
                   options |-> [o \in {"replication_factor"} |-> PyInt(cql[5])],
                   durable_writes |-> ParseBool(cql[n])]
             ELSE SyntaxError
    ELSE IF cql[4] = NetworkHead
      THEN IF n >= 12 /\ (n - 7) % 5 = 0 /\ cql[5] = " "
                /\ NetworkEntriesOk(cql, (n - 7) \div 5)
             THEN [ok |-> TRUE, verb |-> verb, keyspace |-> cql[2],
                   class |-> "NetworkTopologyStrategy",
                   options |-> NetworkOptions(cql, (n - 7) \div 5),
                   durable_writes |-> ParseBool(cql[n])]
             ELSE SyntaxError
    ELSE SyntaxError

\* The server's answer to a statement: the keyspace afterwards, or an error
\* (syntax error, CREATE of an existing keyspace, ALTER or DROP of a missing one).
Execute(cl, cql) ==
  LET st == ParseStatement(cql)
      here == st.ok /\ keyspace_exists(cl, st.keyspace)
  IN IF ~st.ok THEN [ok |-> FALSE, cluster |-> cl]
     ELSE IF st.verb = "CREATE"
       THEN IF here \/ st.keyspace # KeyspaceName
              THEN [ok |-> FALSE, cluster |-> cl]
              ELSE [ok |-> TRUE,
                    cluster |-> [exists |-> TRUE, class |-> st.class,
                                 options |-> st.options,
                                 durable_writes |-> st.durable_writes]]
     ELSE IF st.verb = "ALTER"
       THEN IF ~here \/ st.keyspace # KeyspaceName
              THEN [ok |-> FALSE, cluster |-> cl]
              ELSE [ok |-> TRUE,
                    cluster |-> [exists |-> TRUE, class |-> st.class,
                                 options |-> st.options,
                                 durable_writes |-> st.durable_writes]]
     ELSE IF ~here \/ st.keyspace # KeyspaceName
       THEN [ok |-> FALSE, cluster |-> cl]
       ELSE [ok |-> TRUE, cluster |-> NoKeyspace]

\* A call that ran a statement: the statement, whether the server accepted
\* it, and the keyspace afterwards.
create_alter_keyspace(cl, keyspace, replication_factor, durable_writes, data_centres, is_alter) ==
  LET cql == CreateAlterText(keyspace, replication_factor, durable_writes,
                             data_centres, is_alter)
      r == Execute(cl, cql)
  IN [ok |-> r.ok, cluster |-> r.cluster, cql |-> cql]

\* drop_keyspace that builds the statement but never sends it.
drop_keyspace_not_sent(cl, keyspace) ==
  [ok |-> TRUE, cluster |-> cl, cql |-> <<"DROP KEYSPACE ", keyspace>>]

drop_keyspace(cl, keyspace) ==
  LET cql == <<"DROP KEYSPACE ", keyspace>>
      r == Execute(cl, cql)
  IN [ok |-> r.ok, cluster |-> r.cluster, cql |-> cql]

\* ------------------------------------------------------------------ main
\* How one invocation ends: the keyspace afterwards, the statements sent
\* (issued) and those the server accepted (executed), how the diff ended
\* ("not_called", "True", "False", "KeyError", "TypeError", "fail_json") and
\* the result handed to exit_json or fail_json.
Exit(cl, issued, executed, diff, changed, has_cql, cql) ==
  [cluster |-> cl, issued |-> issued, executed |-> executed, diff |-> diff,
   result |-> [failed |-> FALSE, changed |-> changed, has_cql |-> has_cql,
               cql |-> cql, keyspace |-> KeyspaceName, msg |-> ""]]

Fail(cl, issued, executed, diff, msg) ==
  [cluster |-> cl, issued |-> issued, executed |-> executed, diff |-> diff,
   result |-> [failed |-> TRUE, changed |-> FALSE, has_cql |-> FALSE,
               cql |-> << >>, keyspace |-> KeyspaceName, msg |-> msg]]

DiffTag(ic) ==
  IF ic.exc # "" THEN ic.exc ELSE IF ic.value THEN "True" ELSE "False"

\* fail_json inside keyspace_is_changed exits with its own message; any
\* other exception is caught at line 483.
DiffFailure(cl, ic) ==
  Fail(cl, << >>, << >>, DiffTag(ic),
       IF ic.exc = "fail_json"
         THEN "Unknown Replication strategy: " \o cl.class
         ELSE "An error occured")

\* The check-mode branch with the drop of the other branch left in.
ExistsCheckMode_drops(cl, style, p) ==
  IF p.state = "present"
    THEN LET ic == keyspace_is_changed(cl, style, p.replication_factor,
                                       p.durable_writes, p.data_centres)
         IN IF ic.exc # "" THEN DiffFailure(cl, ic)
            ELSE Exit(cl, << >>, << >>, DiffTag(ic), ic.value, FALSE, << >>)
    ELSE LET r == drop_keyspace(cl, p.name)
         IN Exit(r.cluster, <<r.cql>>, <<r.cql>>, "not_called", TRUE, FALSE, << >>)

\* Keyspace exists, check mode (lines 424-437).
ExistsCheckMode(cl, style, p) ==
  IF p.state = "present"
    THEN LET ic == keyspace_is_changed(cl, style, p.replication_factor,
                                       p.durable_writes, p.data_centres)
         IN IF ic.exc # "" THEN DiffFailure(cl, ic)
            ELSE Exit(cl, << >>, << >>, DiffTag(ic), ic.value, FALSE, << >>)
    ELSE Exit(cl, << >>, << >>, "not_called", TRUE, FALSE, << >>)

\* Keyspace exists, no check mode (lines 438-460).
ExistsApply(cl, style, p) ==
  IF p.state = "present"
    THEN LET ic == keyspace_is_changed(cl, style, p.replication_factor,
                                       p.durable_writes, p.data_centres)
         IN IF ic.exc # "" THEN DiffFailure(cl, ic)
            ELSE IF ic.value
              THEN LET r == create_alter_keyspace(cl, p.name, p.replication_factor,
                                                  p.durable_writes, p.data_centres,
                                                  TRUE)
                   IN IF r.ok
                        THEN Exit(r.cluster, <<r.cql>>, <<r.cql>>, DiffTag(ic),
                                  TRUE, TRUE, r.cql)
                        ELSE Fail(cl, <<r.cql>>, << >>, DiffTag(ic),
                                  "An error occured")
            ELSE Exit(cl, << >>, << >>, DiffTag(ic), FALSE, FALSE, << >>)
    ELSE LET r == drop_keyspace(cl, p.name)
         IN IF r.ok
              THEN Exit(r.cluster, <<r.cql>>, <<r.cql>>, "not_called",
                        TRUE, FALSE, << >>)
              ELSE Fail(cl, <<r.cql>>, << >>, "not_called", "An error occured")

\* Keyspace missing, check mode (lines 462-466).
AbsentCheckMode(cl, p) ==
  Exit(cl, << >>, << >>, "not_called", p.state = "present", FALSE, << >>)

\* The create branch without result['changed'] = True.
AbsentApply_unreported(cl, p) ==
  IF p.state = "present"
    THEN LET r == create_alter_keyspace(cl, p.name, p.replication_factor,
                                        p.durable_writes, p.data_centres, FALSE)
         IN IF r.ok
              THEN Exit(r.cluster, <<r.cql>>, <<r.cql>>, "not_called",
                        FALSE, TRUE, r.cql)
              ELSE Fail(cl, <<r.cql>>, << >>, "not_called", "An error occured")
    ELSE Exit(cl, << >>, << >>, "not_called", FALSE, FALSE, << >>)

\* Keyspace missing, no check mode (lines 467-479).
AbsentApply(cl, p) ==
  IF p.state = "present"
    THEN LET r == create_alter_keyspace(cl, p.name, p.replication_factor,
                                        p.durable_writes, p.data_centres, FALSE)
         IN IF r.ok
              THEN Exit(r.cluster, <<r.cql>>, <<r.cql>>, "not_called",
                        TRUE, TRUE, r.cql)
              ELSE Fail(cl, <<r.cql>>, << >>, "not_called", "An error occured")
    ELSE Exit(cl, << >>, << >>, "not_called", FALSE, FALSE, << >>)

\* The second try block of main (lines 422-484).
Reconcile(cl, style, p, check_mode) ==
  IF keyspace_exists(cl, p.name)
    THEN IF check_mode THEN ExistsCheckMode(cl, style, p)
                       ELSE ExistsApply(cl, style, p)
    ELSE IF check_mode THEN AbsentCheckMode(cl, p)
                       ELSE AbsentApply(cl, p)

\* ------------------------------------------ get_read_and_write_sessions
\* Choices of consistency_level, in the order of DOCUMENTATION.
ConsistencyLevels ==
  <<"ANY", "ONE", "TWO", "THREE", "QUORUM", "ALL", "LOCAL_QUORUM",
    "EACH_QUORUM", "SERIAL", "LOCAL_SERIAL", "LOCAL_ONE">>

ConsistencyLevelNames == {ConsistencyLevels[i] : i \in 1..Len(ConsistencyLevels)}

\* ConsistencyLevel.name_to_value: the driver numbers the levels from 0.
name_to_value(level) ==
  (CHOOSE i \in 1..Len(ConsistencyLevels) : ConsistencyLevels[i] = level) - 1

\* A handle with no execution profile uses the cluster default level.
DefaultProfile == -1

\* Cluster(login_host, port=, auth_provider=, ssl_context=[, execution_profiles=])
Cluster(login_host, login_port, auth_provider, ssl_context, profile) ==
  [contact_points |-> login_host, port |-> login_port,
   auth_provider |-> auth_provider, ssl_context |-> ssl_context,
   consistency_level |-> profile]

\* The function with the two lists of unsupported levels exchanged.
get_read_and_write_sessions_swapped(login_host, login_port, auth_provider, ssl_context, consistency_level) ==
  LET profile == name_to_value(consistency_level)
      cluster_r == IF consistency_level \in {"SERIAL", "LOCAL_SERIAL"}
                     THEN Cluster(login_host, login_port, auth_provider,
                                  ssl_context, DefaultProfile)
                     ELSE Cluster(login_host, login_port, auth_provider,
                                  ssl_context, profile)
      cluster_w == IF consistency_level \in {"ANY", "EACH_QUORUM"}
                     THEN Cluster(login_host, login_port, auth_provider,
                                  ssl_context, DefaultProfile)
                     ELSE Cluster(login_host, login_port, auth_provider,
                                  ssl_context, profile)
  IN <<cluster_r, cluster_w>>

get_read_and_write_sessions(login_host, login_port, auth_provider, ssl_context, consistency_level) ==
  LET profile == name_to_value(consistency_level)
      cluster_r == IF consistency_level \in {"ANY", "EACH_QUORUM"}
                     THEN Cluster(login_host, login_port, auth_provider,
                                  ssl_context, DefaultProfile)
                     ELSE Cluster(login_host, login_port, auth_provider,
                                  ssl_context, profile)
      cluster_w == IF consistency_level \in {"SERIAL", "LOCAL_SERIAL"}
                     THEN Cluster(login_host, login_port, auth_provider,
                                  ssl_context, DefaultProfile)
                     ELSE Cluster(login_host, login_port, auth_provider,
                                  ssl_context, profile)
  IN <<cluster_r, cluster_w>>

\* Arguments main passes to get_read_and_write_sessions (lines 407-411).
LoginHosts == {<<"127.0.0.1">>, <<"node1", "node2">>}

LoginPorts == {9042, 9142}

AuthProviders == {"None", "PlainTextAuthProvider"}

SslContexts == {"None", "SSLContext"}

ConnectionArgs ==
  [login_host : LoginHosts, login_port : LoginPorts,
   auth_provider : AuthProviders, ssl_context : SslContexts,
   consistency_level : ConsistencyLevelNames]

\* The arguments of a task that sets none of them.
DefaultConnectionArgs ==
  [login_host |-> <<"127.0.0.1">>, login_port |-> 9042, auth_provider |-> "None",
   ssl_context |-> "None", consistency_level |-> "LOCAL_ONE"]

\* No handle made yet.
NoSessions == << >>

\* ------------------------------------------------ main, stage by stage
\* What the caller and the host give main besides the keyspace arguments.
CertReqs == {"CERT_NONE", "CERT_OPTIONAL", "CERT_REQUIRED"}

CaCertsPaths == {"", "/missing/ca.pem", "/etc/ssl/ca.pem"}

\* Paths for which os.path.exists is true.
ExistingFiles == {"/etc/ssl/ca.pem"}

Setups ==
  [has_cassandra_driver : BOOLEAN, has_ssl_library : BOOLEAN,
   login_host_given : BOOLEAN, ssl : BOOLEAN,
   ssl_cert_reqs : CertReqs, ssl_ca_certs : CaCertsPaths]

DefaultSetup ==
  [has_cassandra_driver |-> TRUE, has_ssl_library |-> TRUE,
   login_host_given |-> TRUE, ssl |-> FALSE,
   ssl_cert_reqs |-> "CERT_NONE", ssl_ca_certs |-> ""]

\* One network operation of an invocation and whether it succeeded.
Event(op, ok) == [op |-> op, ok |-> ok]

\* Messages of the checks made before the sessions are opened.
DriverMsg == "This module requires the cassandra-driver python driver."

SslLibraryMsg == "This module requires the SSL python library."

CaCertsRequiredMsg == "ssl_ca_certs is also required to be set and not empty"

CaCertsNotFoundMsg == "ssl_ca_certs certificate: File not found"

\* Lines 339-383: the driver check, the probe of 127.0.0.1 when login_host
\* is unset, then the TLS checks. msg is "" when all pass.
Configure(su) ==
  IF ~su.has_cassandra_driver
    THEN [io |-> << >>, msg |-> DriverMsg]
  ELSE LET io == IF ~su.login_host_given THEN <<Event("tcp_probe", TRUE)>>
                                         ELSE << >>
       IN IF ~su.has_ssl_library /\ su.ssl
            THEN [io |-> io, msg |-> SslLibraryMsg]
          ELSE IF su.ssl_cert_reqs \in {"CERT_REQUIRED", "CERT_OPTIONAL"}
                  /\ su.ssl_ca_certs = ""
            THEN [io |-> io, msg |-> CaCertsRequiredMsg]
          ELSE IF su.ssl_cert_reqs \in {"CERT_REQUIRED", "CERT_OPTIONAL"}
                  /\ su.ssl_ca_certs \notin ExistingFiles
            THEN [io |-> io, msg |-> CaCertsNotFoundMsg]
          ELSE [io |-> io, msg |-> ""]

\* Outcomes of opening a session.
ConnectOutcomes == {"ok", "AuthenticationFailed", "Exception"}

\* Connect that goes on with the session it has when the other one fails.
Connect_goes_on(outcome, at) ==
  IF outcome = "ok"
    THEN [io |-> <<Event("connect_r", TRUE), Event("connect_w", TRUE)>>, msg |-> ""]
  ELSE IF at = "r"
    THEN [io |-> <<Event("connect_r", FALSE)>>, msg |-> ""]
  ELSE [io |-> <<Event("connect_r", TRUE), Event("connect_w", FALSE)>>, msg |-> ""]

\* Lines 393-420 with the first failure, if any, at session `at` ("r" or
\* "w"): the operations made, and the message ("" when both sessions open).
Connect(outcome, at) ==
  LET msg == IF outcome = "AuthenticationFailed" THEN "Authentication failed"
                                                 ELSE "Error connecting to cluster"
  IN IF outcome = "ok"
       THEN [io |-> <<Event("connect_r", TRUE), Event("connect_w", TRUE)>>,
             msg |-> ""]
     ELSE IF at = "r"
       THEN [io |-> <<Event("connect_r", FALSE)>>, msg |-> msg]
     ELSE [io |-> <<Event("connect_r", TRUE), Event("connect_w", FALSE)>>,
           msg |-> msg]

\* The two queries of keyspace_exists (lines 194-199); fault names the one
\* that raises, "none" when both answer.
ExistsQueries(fault) ==
  IF fault = "release_version"
    THEN <<Event("select_release_version", FALSE)>>
  ELSE <<Event("select_release_version", TRUE),
         Event("select_keyspaces", fault = "none")>>

\* The branches taken on the keyspace as it is when the statement is sent,
\* not as the existence check found it.
ReconcileObserved_rechecked(cl, style, p, check_mode, exists) ==
  IF keyspace_exists(cl, p.name)
    THEN IF check_mode THEN ExistsCheckMode(cl, style, p)
                       ELSE ExistsApply(cl, style, p)
    ELSE IF check_mode THEN AbsentCheckMode(cl, p)
                       ELSE AbsentApply(cl, p)

\* Lines 424-479 for an invocation that found the keyspace (exists) or not.
ReconcileObserved(cl, style, p, check_mode, exists) ==
  IF exists
    THEN IF check_mode THEN ExistsCheckMode(cl, style, p)
                       ELSE ExistsApply(cl, style, p)
    ELSE IF check_mode THEN AbsentCheckMode(cl, p)
                       ELSE AbsentApply(cl, p)

\* The statements of an outcome as network operations.
StatementEvents(o) ==
  [j \in 1..Len(o.issued) |-> Event("statement", o.executed # << >>)]

\* The result of an invocation stopped before the second try block.
EarlyFailure(msg) ==
  [failed |-> TRUE, changed |-> FALSE, has_cql |-> FALSE, cql |-> << >>,
   keyspace |-> KeyspaceName, msg |-> msg]

VARIABLES cluster, export_style, params, log, conn, sessions, setup, pc, run

vars == <<cluster, export_style, params, log, conn, sessions, setup, pc, run>>

\* The invocations that may run side by side.
Invocations == {1, 2}

\* An invocation before main: nothing done, no result.
FreshRun(check_mode) ==
  [check_mode |-> check_mode, io |-> << >>, exists |-> FALSE, stale |-> FALSE,
   issued |-> << >>, executed |-> << >>, outputs |-> << >>]

\* No stage-by-stage invocation under way.
NoInvocation == [i \in Invocations |-> "idle"]

NoRun == [i \in Invocations |-> FreshRun(FALSE)]

\* ---------------------------------------------------------- specification
\* cluster: the keyspace as the cluster holds it; export_style: how the
\* driver writes exported definitions; params: module.params, the same for
\* every invocation; log: one entry per invocation so far; conn: the
\* arguments of get_read_and_write_sessions; sessions: the handles it made.
Init ==
  /\ cluster \in ClusterStates
  /\ export_style \in ExportStyles
  /\ params \in ModuleParams
  /\ log = << >>
  /\ conn = DefaultConnectionArgs
  /\ sessions = NoSessions
  /\ setup = DefaultSetup
  /\ pc = NoInvocation
  /\ run = NoRun

\* One invocation of the module with both sessions open, in check mode or
\* not: the second try block of main.
main(check_mode) ==
  /\ Len(log) < MaxRuns
  /\ LET o == Reconcile(cluster, export_style, params, check_mode)
     IN /\ cluster' = o.cluster
        /\ log' = Append(log, [check_mode |-> check_mode,
                               before |-> cluster, after |-> o.cluster,
                               issued |-> o.issued, executed |-> o.executed,
                               diff |-> o.diff, result |-> o.result])
  /\ UNCHANGED <<export_style, params, conn, sessions, setup, pc, run>>

Next == \E check_mode \in BOOLEAN : main(check_mode)

Spec == Init /\ [][Next]_vars

\* The invocations so far and the latest one.
Runs == 1..Len(log)

Ran == Len(log) > 0

Last == log[Len(log)]

\* ------------------------------------------------- vocabulary of the claims
\* The durable-writes flag an exported definition states (true when the
\* clause is omitted).
ExportedFlag(cl, style) ==
  DurableWritesClause(cl, style)
    \in {"", "DURABLE_WRITES = True;", "durable_writes = true;"}

\* The class the desired spec implies.
ImpliedClass(p) ==
  IF p.data_centres.is_none THEN "SimpleStrategy" ELSE "NetworkTopologyStrategy"

\* The keyspace the desired spec describes.
DesiredDefinition(p) ==
  IF p.data_centres.is_none
    THEN SimpleKeyspace(p.replication_factor, p.durable_writes)
    ELSE NetworkKeyspace(p.data_centres.map, p.durable_writes)

SameReplication(cl, p) ==
  /\ cl.exists
  /\ cl.class = DesiredDefinition(p).class
  /\ cl.options = DesiredDefinition(p).options

\* The keyspace is what the desired spec asks for (any keyspace at all when
\* data_centres is an empty mapping).
MatchesDesired(cl, p) ==
  IF ~p.data_centres.is_none /\ p.data_centres.map = EmptyMap
    THEN cl.exists
    ELSE cl = DesiredDefinition(p)

\* The replication class a CREATE or ALTER statement names.
ClassOfStatement(cql) ==
  IF cql[4] = SimpleHead THEN "SimpleStrategy" ELSE "NetworkTopologyStrategy"

\* C1: with state=present, when the live keyspace already equals the desired
\* one, the invocation reports changed=false, emits no cql and sends no
\* statement.
C1_NoOpWhenAlreadyDesired ==
  \A i \in Runs :
    (/\ params.state = "present"
     /\ SameReplication(log[i].before, params)
     /\ ExportedFlag(log[i].before, export_style) = params.durable_writes)
    => (/\ ~log[i].result.failed
        /\ log[i].result.changed = FALSE
        /\ ~log[i].result.has_cql
        /\ log[i].issued = << >>)

\* C2: with state=present and the same replication settings, a live
\* durable-writes flag (as the exported definition states it) that differs
\* from the desired one makes the invocation report changed=true.
C2_DurableWritesDriftDetected ==
  \A i \in Runs :
    (/\ params.state = "present"
     /\ SameReplication(log[i].before, params)
     /\ ExportedFlag(log[i].before, export_style) # params.durable_writes)
    => (~log[i].result.failed /\ log[i].result.changed)

\* C3: after a successful invocation outside check mode, started with the
\* keyspace absent or of the class the desired spec implies, the keyspace is
\* gone (state=absent) or is the desired one (state=present).
C3_LiveMatchesDesiredAfterRun ==
  \A i \in Runs :
    (/\ ~log[i].check_mode
     /\ ~log[i].result.failed
     /\ (~log[i].before.exists \/ log[i].before.class = ImpliedClass(params)))
    => IF params.state = "absent"
         THEN ~log[i].after.exists
         ELSE MatchesDesired(log[i].after, params)

\* C4: when the live class differs from the class the desired spec implies,
\* no executed ALTER KEYSPACE names a class other than the live one.
C4_NoStrategyMigration ==
  \A i \in Runs :
    \A j \in 1..Len(log[i].executed) :
      (/\ log[i].before.exists
       /\ log[i].before.class # ImpliedClass(params)
       /\ log[i].executed[j][1] = "ALTER KEYSPACE ")
      => ClassOfStatement(log[i].executed[j]) = log[i].before.class

\* C5: an invocation in check mode sends no statement and leaves the
\* cluster's keyspace as it was.
C5_CheckModeExecutesNothing ==
  \A i \in Runs :
    log[i].check_mode
      => (log[i].issued = << >> /\ log[i].executed = << >>
          /\ log[i].after = log[i].before)

\* A check-mode invocation on an existing keyspace with state=absent: the
\* one that would drop reports changed and the keyspace is still there.
C5_Witness ==
  /\ Ran
  /\ Last.check_mode
  /\ params.state = "absent"
  /\ Last.before.exists /\ cluster.exists
  /\ Last.result.changed

\* C6: a check-mode invocation reports what the same invocation outside
\* check mode, started from the same cluster state, would report.
C6_CheckModeReportsSameChanged ==
  \A i \in Runs :
    log[i].check_mode
    => LET real == Reconcile(log[i].before, export_style, params, FALSE).result
       IN /\ real.failed = log[i].result.failed
          /\ real.changed = log[i].result.changed

\* C7: with the keyspace missing and state=present outside check mode,
\* exactly one CREATE KEYSPACE built from the desired spec is executed and
\* the result reports changed=true with that statement as cql.
C7_CreateWhenMissing ==
  \A i \in Runs :
    (/\ ~log[i].check_mode
     /\ params.state = "present"
     /\ ~log[i].before.exists)
    => (/\ Len(log[i].executed) = 1
        /\ log[i].issued = log[i].executed
        /\ log[i].executed[1][1] = "CREATE KEYSPACE "
        /\ MatchesDesired(log[i].after, params)
        /\ ~log[i].result.failed
        /\ log[i].result.changed
        /\ log[i].result.has_cql
        /\ log[i].result.cql = log[i].executed[1])

\* An invocation outside check mode that finds the keyspace and is asked to
\* remove it.
DropCase(e) ==
  ~e.check_mode /\ params.state = "absent" /\ e.before.exists

\* C8: with the keyspace present and state=absent outside check mode, DROP
\* KEYSPACE is executed and changed=true reported; the same invocation
\* repeated next finds no keyspace, sends nothing and reports changed=false.
C8_DropThenNoOp ==
  \A i \in Runs :
    DropCase(log[i])
    => (/\ log[i].executed = <<<<"DROP KEYSPACE ", KeyspaceName>>>>
        /\ ~log[i].result.failed
        /\ log[i].result.changed
        /\ ~log[i].after.exists
        /\ (i + 1 \in Runs /\ ~log[i + 1].check_mode)
           => (/\ ~log[i + 1].before.exists
               /\ log[i + 1].issued = << >>
               /\ ~log[i + 1].result.failed
               /\ log[i + 1].result.changed = FALSE))

\* A drop followed by the same invocation again.
C8_Witness ==
  /\ Len(log) = 2
  /\ DropCase(log[1])
  /\ log[1].result.changed
  /\ ~log[2].check_mode
  /\ log[2].result.changed = FALSE
  /\ ~cluster.exists

\* C9: for a live NetworkTopologyStrategy keyspace the diff returns true
\* exactly when the durable-writes flags differ, or a desired data centre is
\* missing live or has another factor, or a live data centre is not desired.
C9_NetworkDiffExact ==
  \A i \in Runs :
    (/\ log[i].before.exists
     /\ log[i].before.class = "NetworkTopologyStrategy"
     /\ log[i].diff # "not_called")
    => LET live == log[i].before.options
           want == params.data_centres.map
       IN /\ log[i].diff \in {"True", "False"}
          /\ (log[i].diff = "True")
               <=> \/ ExportedFlag(log[i].before, export_style) # params.durable_writes
                   \/ \E dc \in DOMAIN want :
                         dc \notin DOMAIN live \/ live[dc] # want[dc]
                   \/ \E dc \in DOMAIN live : dc \notin DOMAIN want

\* C10: for a live SimpleStrategy keyspace the diff returns true exactly
\* when the replication factors differ or the durable-writes flags differ.
C10_SimpleDiffExact ==
  \A i \in Runs :
    (/\ log[i].before.exists
     /\ log[i].before.class = "SimpleStrategy"
     /\ log[i].diff # "not_called")
    => /\ log[i].diff \in {"True", "False"}
       /\ (log[i].diff = "True")
            <=> \/ log[i].before.options["replication_factor"] # params.replication_factor
                \/ ExportedFlag(log[i].before, export_style) # params.durable_writes

\* ----------------------------------------------- the statement builder
\* A statement of create_alter_keyspace.
IsCreateAlter(cql) == cql[1] \in {"CREATE KEYSPACE ", "ALTER KEYSPACE "}

\* C11: when data_centres is not given or is an empty mapping, every
\* statement the builder emits is a SimpleStrategy one holding the desired
\* replication_factor and no data centre entry.
C11_EmptyDataCentresIsSimple ==
  \A i \in Runs :
    \A j \in 1..Len(log[i].issued) :
      (/\ IsCreateAlter(log[i].issued[j])
       /\ (params.data_centres.is_none \/ params.data_centres.map = EmptyMap))
      => (/\ Len(log[i].issued[j]) = 8
          /\ log[i].issued[j][4] = SimpleHead
          /\ log[i].issued[j][5] = PyFormatInt(params.replication_factor))

\* The (data centre, factor) pairs written in a statement of k entries.
WrittenPairs(cql, k) ==
  {<<cql[7 + 5 * (i - 1)], cql[9 + 5 * (i - 1)]>> : i \in 1..k}

\* C12: for a non-empty data_centres mapping the builder emits a
\* NetworkTopologyStrategy statement (CREATE for a missing keyspace, ALTER
\* for an existing one) with exactly one pair per entry of the mapping,
\* followed by the desired DURABLE_WRITES value.
C12_NetworkStatementExact ==
  \A i \in Runs :
    \A j \in 1..Len(log[i].issued) :
      (/\ IsCreateAlter(log[i].issued[j])
       /\ ~params.data_centres.is_none
       /\ params.data_centres.map # EmptyMap)
      => LET cql == log[i].issued[j]
             want == params.data_centres.map
             k == Cardinality(DOMAIN want)
         IN /\ cql[1] = IF log[i].before.exists THEN "ALTER KEYSPACE "
                                                ELSE "CREATE KEYSPACE "
            /\ cql[2] = params.name
            /\ cql[4] = NetworkHead
            /\ Len(cql) = 5 * k + 7
            /\ WrittenPairs(cql, k)
                 = {<<dc, PyFormatInt(want[dc])>> : dc \in DOMAIN want}
            /\ cql[Len(cql) - 2] = " }"
            /\ cql[Len(cql) - 1] = " AND DURABLE_WRITES = "
            /\ cql[Len(cql)] = PyFormatBool(params.durable_writes)

\* A statement for a mapping of two data centres has been sent.
C12_Witness ==
  /\ Ran
  /\ Cardinality(DOMAIN params.data_centres.map) = 2
  /\ Len(Last.issued) = 1
  /\ IsCreateAlter(Last.issued[1])
  /\ Len(Last.issued[1]) = 17

\* C14: a successful result holds cql exactly when a mutating statement was
\* executed, cql being that statement; keyspace echoes the name given; msg
\* appears only on failure.
C14_CqlExactlyWhenChanged ==
  \A i \in Runs :
    /\ log[i].result.keyspace = params.name
    /\ (log[i].result.msg # "") <=> log[i].result.failed
    /\ ~log[i].result.failed
         => /\ log[i].result.has_cql <=> log[i].executed # << >>
            /\ log[i].result.has_cql => log[i].result.cql = log[i].executed[1]

\* C16: with data_centres set, the invocation does the same (changed,
\* statement sent, keyspace afterwards) whatever replication_factor is.
C16_ReplicationFactorIgnored ==
  \A i \in Runs :
    ~params.data_centres.is_none
    => \A rf \in 1..MaxRF :
         LET other == Reconcile(log[i].before, export_style,
                                [params EXCEPT !.replication_factor = rf],
                                log[i].check_mode)
         IN /\ other.result.changed = log[i].result.changed
            /\ other.result.failed = log[i].result.failed
            /\ other.issued = log[i].issued
            /\ other.cluster = log[i].after

\* A live keyspace of a class the diff does not know, with state=present.
UnknownClassCase(e) ==
  /\ e.before.exists
  /\ e.before.class \notin {"SimpleStrategy", "NetworkTopologyStrategy"}
  /\ params.state = "present"

\* C17: with the keyspace present, state=present and a live class that is
\* neither SimpleStrategy nor NetworkTopologyStrategy, the invocation fails
\* with a message naming the class, sends no statement and reports no
\* change, in check mode or not.
C17_UnknownClassFails ==
  \A i \in Runs :
    UnknownClassCase(log[i])
    => (/\ log[i].result.failed
        /\ log[i].result.msg
             = "Unknown Replication strategy: " \o log[i].before.class
        /\ ~log[i].result.changed
        /\ log[i].issued = << >>
        /\ log[i].after = log[i].before)

\* Both kinds of invocation have met the unknown class.
C17_Witness ==
  /\ Len(log) = 2
  /\ UnknownClassCase(log[1]) /\ UnknownClassCase(log[2])
  /\ log[1].check_mode /\ ~log[2].check_mode
  /\ log[2].result.failed
  /\ log[2].diff = "fail_json"

\* C20: no invocation sends more than one mutating statement; outside check
\* mode a successful result reports changed=true exactly when one statement
\* was executed without error and changed=false exactly when none was sent.
C20_ChangedIffOneStatement ==
  \A i \in Runs :
    /\ Len(log[i].issued) <= 1
    /\ (~log[i].check_mode /\ ~log[i].result.failed)
         => /\ log[i].result.changed
                 <=> (Len(log[i].executed) = 1 /\ log[i].issued = log[i].executed)
            /\ ~log[i].result.changed <=> log[i].issued = << >>

\* A run that executed one statement and one that executed none.
C20_Witness ==
  /\ Len(log) = 2
  /\ ~log[1].check_mode /\ ~log[2].check_mode
  /\ log[1].result.changed /\ Len(log[1].executed) = 1
  /\ ~log[2].result.failed /\ ~log[2].result.changed /\ log[2].issued = << >>

\* --------------------------------------------- the two cluster handles
InitSessions ==
  /\ cluster = NoKeyspace
  /\ export_style = "lower"
  /\ params = [name |-> KeyspaceName, state |-> "present", replication_factor |-> 1,
               durable_writes |-> TRUE,
               data_centres |-> [is_none |-> TRUE, map |-> EmptyMap]]
  /\ log = << >>
  /\ conn \in ConnectionArgs
  /\ sessions = NoSessions
  /\ setup = DefaultSetup
  /\ pc = NoInvocation
  /\ run = NoRun

\* main makes the two handles (lines 407-411).
MakeSessions ==
  /\ sessions = NoSessions
  /\ sessions' = get_read_and_write_sessions(conn.login_host, conn.login_port,
                                             conn.auth_provider, conn.ssl_context,
                                             conn.consistency_level)
  /\ UNCHANGED <<cluster, export_style, params, log, conn, setup, pc, run>>

NextSessions == MakeSessions

SpecSessions == InitSessions /\ [][NextSessions]_vars

\* C13: the read handle uses the requested level unless it is ANY or
\* EACH_QUORUM, the write handle uses it unless it is SERIAL or
\* LOCAL_SERIAL, the cluster default being used otherwise; hosts, port,
\* credentials and TLS context are the same for both.
C13_ConsistencyFallback ==
  sessions # NoSessions
  => LET level == conn.consistency_level
         r == sessions[1]
         w == sessions[2]
     IN /\ r.consistency_level
             = IF level \in {"ANY", "EACH_QUORUM"}
                 THEN DefaultProfile ELSE name_to_value(level)
        /\ w.consistency_level
             = IF level \in {"SERIAL", "LOCAL_SERIAL"}
                 THEN DefaultProfile ELSE name_to_value(level)
        /\ \A h \in {r, w} :
             /\ h.contact_points = conn.login_host
             /\ h.port = conn.login_port
             /\ h.auth_provider = conn.auth_provider
             /\ h.ssl_context = conn.ssl_context

\* Handles made for a level only the write handle can use.
C13_Witness ==
  /\ sessions # NoSessions
  /\ conn.consistency_level = "EACH_QUORUM"
  /\ sessions[1].consistency_level = DefaultProfile
  /\ sessions[2].consistency_level = 7


\* ------------------------------------------- main as a sequence of stages
\* An invocation moves NotConnected -> Configured -> Connected -> Checked ->
\* Reconciled, or to Failed from any stage. run[i].io lists its network
\* operations in order, run[i].outputs the results it has handed back.
Terminal == {"Reconciled", "Failed"}

\* Keyspaces and arguments of the staged specifications.
StageClusters ==
  {NoKeyspace, SimpleKeyspace(1, TRUE), LocalKeyspace(TRUE),
   NetworkKeyspace([d \in {DCNames[1]} |-> 1], TRUE)}

StageParams ==
  {p \in ModuleParams :
     /\ p.durable_writes
     /\ (p.data_centres.is_none \/ p.data_centres.map = EmptyMap)}

Stopped(r, io, msg) ==
  [r EXCEPT !.io = r.io \o io, !.outputs = Append(r.outputs, EarlyFailure(msg))]

\* Lines 339-383.
ConfigureStage(i) ==
  /\ pc[i] = "NotConnected"
  /\ LET c == Configure(setup)
     IN IF c.msg # ""
          THEN /\ pc' = [pc EXCEPT ![i] = "Failed"]
               /\ run' = [run EXCEPT ![i] = Stopped(run[i], c.io, c.msg)]
          ELSE /\ pc' = [pc EXCEPT ![i] = "Configured"]
               /\ run' = [run EXCEPT ![i].io = run[i].io \o c.io]
  /\ UNCHANGED <<cluster, export_style, params, log, conn, sessions, setup>>

\* Lines 393-420.
ConnectStage(i, outcome, at) ==
  /\ pc[i] = "Configured"
  /\ LET c == Connect(outcome, at)
     IN IF c.msg # ""
          THEN /\ pc' = [pc EXCEPT ![i] = "Failed"]
               /\ run' = [run EXCEPT ![i] = Stopped(run[i], c.io, c.msg)]
          ELSE /\ pc' = [pc EXCEPT ![i] = "Connected"]
               /\ run' = [run EXCEPT ![i].io = run[i].io \o c.io]
  /\ UNCHANGED <<cluster, export_style, params, log, conn, sessions, setup>>

\* Line 423: the existence check, on the read session.
ExistsStage(i, fault) ==
  /\ pc[i] = "Connected"
  /\ IF fault # "none"
       THEN /\ pc' = [pc EXCEPT ![i] = "Failed"]
            /\ run' = [run EXCEPT ![i] = Stopped(run[i], ExistsQueries(fault),
                                                 "An error occured")]
       ELSE /\ pc' = [pc EXCEPT ![i] = "Checked"]
            /\ run' = [run EXCEPT ![i].io = run[i].io \o ExistsQueries(fault),
                                  ![i].exists = keyspace_exists(cluster, params.name)]
  /\ UNCHANGED <<cluster, export_style, params, log, conn, sessions, setup>>

\* Lines 424-484: the branch chosen by what the existence check found, run
\* against the keyspace as it is now.
ReconcileStage(i) ==
  /\ pc[i] = "Checked"
  /\ LET o == ReconcileObserved(cluster, export_style, params,
                                run[i].check_mode, run[i].exists)
     IN /\ cluster' = o.cluster
        /\ pc' = [pc EXCEPT ![i] = IF o.result.failed THEN "Failed"
                                                      ELSE "Reconciled"]
        /\ run' = [run EXCEPT
                     ![i].io = run[i].io \o StatementEvents(o),
                     ![i].stale = (run[i].exists
                                     # keyspace_exists(cluster, params.name)),
                     ![i].issued = o.issued,
                     ![i].executed = o.executed,
                     ![i].outputs = Append(run[i].outputs, o.result)]
  /\ UNCHANGED <<export_style, params, log, conn, sessions, setup>>

NextStages ==
  \E i \in Invocations :
    \/ ConfigureStage(i)
    \/ \E outcome \in ConnectOutcomes, at \in {"r", "w"} :
         ConnectStage(i, outcome, at)
    \/ \E fault \in {"none", "release_version", "keyspaces"} :
         ExistsStage(i, fault)
    \/ ReconcileStage(i)

\* One invocation, under every setup.
InitStartup ==
  /\ cluster \in StageClusters
  /\ export_style = "lower"
  /\ params \in StageParams
  /\ log = << >>
  /\ conn = DefaultConnectionArgs
  /\ sessions = NoSessions
  /\ setup \in Setups
  /\ pc = [NoInvocation EXCEPT ![1] = "NotConnected"]
  /\ \E check_mode \in BOOLEAN :
       run = [NoRun EXCEPT ![1] = FreshRun(check_mode)]

SpecStartup == InitStartup /\ [][NextStages]_vars

\* Two invocations with the same arguments against one cluster.
InitConcurrent ==
  /\ cluster \in StageClusters
  /\ export_style = "lower"
  /\ params \in StageParams
  /\ log = << >>
  /\ conn = DefaultConnectionArgs
  /\ sessions = NoSessions
  /\ setup = DefaultSetup
  /\ pc = [i \in Invocations |-> "NotConnected"]
  /\ \E modes \in [Invocations -> BOOLEAN] :
       run = [i \in Invocations |-> FreshRun(modes[i])]

SpecConcurrent == InitConcurrent /\ [][NextStages]_vars


\* --------------------------------------------- claims about the stages
\* ssl_cert_reqs asks for verification and ssl_ca_certs names no file.
BadCaCerts ==
  /\ setup.ssl_cert_reqs \in {"CERT_OPTIONAL", "CERT_REQUIRED"}
  /\ setup.ssl_ca_certs \notin ExistingFiles

ConfigurationMsgs ==
  {DriverMsg, SslLibraryMsg, CaCertsRequiredMsg, CaCertsNotFoundMsg}

Started(i) == pc[i] \notin {"idle", "NotConnected"}

\* C15: when ssl_cert_reqs is CERT_OPTIONAL or CERT_REQUIRED and ssl_ca_certs
\* is empty or names no file on disk, the invocation fails with a
\* configuration error and has made no network operation, neither the probe
\* of 127.0.0.1 nor a connection to the cluster.
C15_NoNetworkBeforeTlsFailure ==
  \A i \in Invocations :
    (BadCaCerts /\ Started(i))
      => /\ pc[i] = "Failed"
         /\ run[i].outputs[1].msg \in ConfigurationMsgs
         /\ run[i].io = << >>

\* The operations that need an open session.
SessionOps == {"select_release_version", "select_keyspaces", "statement"}

BothSessionsBefore(io, k) ==
  /\ \E a \in 1..(k - 1) : io[a] = Event("connect_r", TRUE)
  /\ \E b \in 1..(k - 1) : io[b] = Event("connect_w", TRUE)

\* C18: an invocation hands back one result exactly when it has ended, a
\* success when Reconciled and a failure with a message when Failed; a
\* failed operation is the last one of the invocation and leaves it Failed
\* with no statement executed; no operation is made twice; and every query
\* or statement comes after both sessions were opened.
C18_FailureAborts ==
  \A i \in Invocations :
    LET io == run[i].io
        out == run[i].outputs
    IN /\ Len(out) = IF pc[i] \in Terminal THEN 1 ELSE 0
       /\ pc[i] = "Reconciled" => ~out[1].failed
       /\ pc[i] = "Failed"
            => out[1].failed /\ out[1].msg # "" /\ run[i].executed = << >>
       /\ \A k \in 1..Len(io) :
            /\ ~io[k].ok => (k = Len(io) /\ pc[i] = "Failed")
            /\ io[k].op \in SessionOps => BothSessionsBefore(io, k)
            /\ \A j \in 1..(k - 1) : io[j].op # io[k].op

\* C18 witness: an invocation whose statement the server rejected, after
\* both sessions and the existence check, and which ended Failed.
C18_Witness ==
  \E i \in Invocations :
    LET io == run[i].io
    IN /\ pc[i] = "Failed"
       /\ Len(io) = 5
       /\ io[5] = Event("statement", FALSE)
       /\ io[4] = Event("select_keyspaces", TRUE)

\* The invocation passed the existence check and ran its branch.
Acted(i) ==
  /\ pc[i] \in Terminal
  /\ \E k \in 1..Len(run[i].io) : run[i].io[k] = Event("select_keyspaces", TRUE)

IssuedCreate(i) ==
  Len(run[i].issued) = 1 /\ run[i].issued[1][1] = "CREATE KEYSPACE "

IssuedDrop(i) ==
  run[i].issued = <<(<<"DROP KEYSPACE ", params.name>>)>>

\* C19: nothing stands between the existence check and the statement: outside
\* check mode an invocation that found no keyspace with state=present sends
\* CREATE KEYSPACE, and one that found the keyspace with state=absent sends
\* DROP KEYSPACE, whatever another invocation did to the keyspace in between.
C19_NoFencing ==
  \A i \in Invocations :
    (Acted(i) /\ ~run[i].check_mode)
      => /\ (params.state = "present" /\ ~run[i].exists) => IssuedCreate(i)
         /\ (params.state = "absent" /\ run[i].exists) => IssuedDrop(i)

\* C19 witness: both invocations found no keyspace and both sent CREATE
\* KEYSPACE; the first created it, the second ran against a keyspace it had
\* not seen and was rejected.
C19_Witness ==
  \E i, j \in Invocations :
    /\ i # j /\ Acted(i) /\ Acted(j)
    /\ ~run[i].exists /\ ~run[j].exists
    /\ IssuedCreate(i) /\ IssuedCreate(j)
    /\ run[i].executed # << >> /\ ~run[i].stale
    /\ run[j].stale /\ run[j].executed = << >> /\ pc[j] = "Failed"

====
